---- MODULE Spec2Model ----
(***************************************************************************)
(* Comic-book story generator (LangGraph StateGraph workflows).            *)
(*                                                                         *)
(*  main    src/src/react_agent/graph.ts   comicBookGraph: revision loop   *)
(*          on the story plan, fan-out of the scenes, fan-out of the       *)
(*          per-scene visual sub-workflow, output assembly                 *)
(*  visual  src/src/react_agent/graph.ts   singleSceneVisualProcessing-    *)
(*          Subgraph, run on its own                                       *)
(*  linear  src/unnamed/part_003           comicBookGraph: processInputs,  *)
(*          planStory, generateScenes, formatOutput in a chain             *)
(*                                                                         *)
(* A graph runs in supersteps: the tasks of a superstep read the channels  *)
(* as they were when the superstep began, their updates are merged by the  *)
(* channel reducers when the last of them completes, and the tasks they    *)
(* triggered (static edges, router results, Send packets) make up the next *)
(* superstep.  A task that throws fails the invocation.                    *)
(*                                                                         *)
(* Strings that the code takes apart (the categories) are sequences of     *)
(* tokens, words and the separators "_" and "-"; other texts are opaque.   *)
(***************************************************************************)
EXTENDS Integers, Sequences, FiniteSets, TLC

VARIABLES
    graph,              \* which compiled graph this invocation runs
    CONFIG,             \* [sceneCount, revisionLimit]
    input,              \* the value the caller passed for audience_inputs
    audience_inputs,    \* channels of the main and linear graphs
    storyPlan,
    narrativeCritique,
    scenes,
    visualDescriptions,
    finalOutput,
    scene,              \* channels of the visual sub-workflow
    visualDescription,
    visualCritique,
    userInput,          \* channels of the skeleton graph
    processedData,
    tasks,              \* the tasks of the current superstep
    done,               \* indices of the tasks that have completed
    writes,             \* their writes, in completion order
    status,             \* "running", "done" or "failed"
    calls,              \* executions of each node so far
    port                \* what the Generation Port was asked and answered

channels == <<audience_inputs, storyPlan, narrativeCritique, scenes,
              visualDescriptions, finalOutput, scene, visualDescription,
              visualCritique, userInput, processedData>>
engine == <<tasks, done, writes, status>>
vars == <<graph, CONFIG, input, channels, engine, calls, port>>

(***************************************************************************)
(* Bounds                                                                  *)
(***************************************************************************)
MaxSceneCount == 2
MaxRevisionLimit == 2
\* the Generation Port returns up to sceneCount + MaxExtra plan entries
MaxExtra == 3
\* cap of the execution counters: no node runs more often than this
MaxCalls == MaxSceneCount + MaxRevisionLimit + 2

(***************************************************************************)
(* JavaScript values                                                       *)
(***************************************************************************)
Undefined == [kind |-> "undefined"]
NoWrite == [kind |-> "nowrite"]
\* the rejected promise of a Generation Port call
PortError == [kind |-> "error"]

Arr(items) == [kind |-> "array", items |-> items]
Obj(v) == [kind |-> "object", audience_inputs |-> v]
Str(s) == [kind |-> "string", value |-> s]

isArray(v) == v.kind = "array"
\* objects and arrays are truthy; the strings of the model are non-empty
truthy(v) == ~("kind" \in DOMAIN v /\ v.kind = "undefined")
member(v, key) ==
    IF v.kind = "object" /\ key = "audience_inputs" THEN v.audience_inputs
    ELSE Undefined

RECURSIVE replace(_, _, _)
replace(s, pattern, replacement) ==
    IF s = <<>> THEN <<>>
    ELSE IF Head(s) = pattern THEN <<replacement>> \o Tail(s)
    ELSE <<Head(s)>> \o replace(Tail(s), pattern, replacement)

slice(s, n) == IF Len(s) <= n THEN s ELSE SubSeq(s, 1, n)

Range(s) == {s[i] : i \in DOMAIN s}

\* Array.prototype.sort with (a, b) => a.sceneNumber - b.sceneNumber: stable, so
\* entry j comes before entry i when it compares lower, or equal and j < i
sortBySceneNumber(s) ==
    LET before(j, i) == \/ s[j].sceneNumber - s[i].sceneNumber < 0
                        \/ s[j].sceneNumber - s[i].sceneNumber = 0 /\ j < i
        position(i) == Cardinality({j \in DOMAIN s : before(j, i)}) + 1
    IN  [p \in DOMAIN s |-> s[CHOOSE i \in DOMAIN s : position(i) = p]]

(***************************************************************************)
(* Channels and reducers                                                   *)
(***************************************************************************)
\* reducer: (current, update) => update
replaceReducer(current, update) == update
\* mutant: the append channel puts the update in front
concatReducer_prepend(current, update) == update \o current

\* mutant: the append channel keeps only the last update
concatReducer_lastWins(current, update) == update

\* reducer: (current, update) => current.concat(update)
concatReducer(current, update) == current \o update

AppendChannels == {"scenes", "visualDescriptions"}

\* the critique channels' default
defaultCritique == [isApproved |-> FALSE, feedback |-> <<>>, revisionCount |-> 0]

\* a node's return value: NoWrite marks a key the node did not return
NoUpdate ==
    [audience_inputs |-> NoWrite, storyPlan |-> NoWrite,
     narrativeCritique |-> NoWrite, scenes |-> <<>>, visualDescriptions |-> <<>>,
     finalOutput |-> NoWrite, scene |-> NoWrite, visualDescription |-> NoWrite,
     visualCritique |-> NoWrite, userInput |-> NoWrite, processedData |-> NoWrite]

State ==
    [audience_inputs |-> audience_inputs, storyPlan |-> storyPlan,
     narrativeCritique |-> narrativeCritique, scenes |-> scenes,
     visualDescriptions |-> visualDescriptions, finalOutput |-> finalOutput,
     scene |-> scene, visualDescription |-> visualDescription,
     visualCritique |-> visualCritique, userInput |-> userInput,
     processedData |-> processedData]

applyUpdate(s, u) ==
    [k \in DOMAIN s |->
        IF k \in AppendChannels THEN concatReducer(s[k], u[k])
        ELSE IF u[k] = NoWrite THEN s[k]
        ELSE replaceReducer(s[k], u[k])]

RECURSIVE applyWrites(_, _)
applyWrites(s, ws) ==
    IF ws = <<>> THEN s
    ELSE applyWrites(applyUpdate(s, Head(ws).update), Tail(ws))

returned(u) == [ok |-> TRUE, update |-> u, error |-> "none"]
thrown(e) == [ok |-> FALSE, update |-> NoUpdate, error |-> e]

(***************************************************************************)
(* Categories: token sequences                                             *)
(***************************************************************************)
character == <<"character">>
setting == <<"setting">>
plot_twist == <<"plot", "_", "twist">>
plot_hyphen_twist == <<"plot", "-", "twist">>
character_description == <<"character", "-", "description">>
setting_description == <<"setting", "-", "description">>
significant_prop == <<"significant", "-", "prop">>
character_backstory == <<"character", "-", "backstory">>
atmospheric_conditions == <<"atmospheric", "-", "conditions">>
special_ability == <<"special", "_", "ability">>
technology_concept == <<"technology", "-", "concept">>

(***************************************************************************)
(* The Generation Port: the answers it may give to a request               *)
(***************************************************************************)
PlanHeads ==
    {[title |-> "title A", premise |-> "premise A"],
     [title |-> "title B", premise |-> "premise B"]}

generatedArc(k) ==
    [j \in 1..k |-> [phase |-> <<"phase", j>>, description |-> "generated"]]

StoryPlanAnswers(sceneCount) ==
    {[title |-> h.title, premise |-> h.premise, narrativeArc |-> generatedArc(k)] :
        h \in PlanHeads, k \in 0..(sceneCount + MaxExtra)}

CritiqueAnswers ==
    {[isApproved |-> TRUE, feedback |-> <<"fine">>],
     [isApproved |-> FALSE, feedback |-> <<"revise">>]}

\* a number the model may write instead of the one it was asked for
otherNumber(n, sceneCount) == (n % sceneCount) + 1

\* the answer's sceneNumber is whatever number the model writes: the number
\* asked for, or another
SceneAnswers(request) ==
    {[sceneNumber |-> n, title |-> <<"title", request.sceneNumber>>,
      description |-> "description"] :
        n \in {request.sceneNumber,
               otherNumber(request.sceneNumber, request.sceneCount)}}

\* the length the schema asks the model to keep imagePrompt under
imagePromptLimit == 300

\* an imagePrompt is the sequence of its characters; the first two stand for
\* the scene it was written for. The Generation Port keeps to the asked length
\* or not (the long answer is offered to runs of one scene)
ImagePrompts(request) ==
    {<<"image", request.title[2]>>} \cup
    IF CONFIG.sceneCount = 1
    THEN {[j \in 1..(imagePromptLimit + 1) |->
             IF j = 1 THEN "image" ELSE IF j = 2 THEN request.title[2] ELSE "."]}
    ELSE {}

VisualAnswers(request) ==
    {[sceneNumber |-> n, visualElements |-> "elements", imagePrompt |-> p] :
        n \in {request.sceneNumber, request.sceneNumber + 1},
        p \in ImagePrompts(request)}


(***************************************************************************)
(* Nodes of the main graph (graph.ts)                                      *)
(***************************************************************************)
\* mutant: the wrapped form is not unwrapped
processInputs_asIs(s) == returned(NoUpdate)

processInputs(s) ==
    IF truthy(s.audience_inputs) /\ isArray(s.audience_inputs)
    THEN returned(NoUpdate)
    ELSE IF /\ truthy(s.audience_inputs)
            /\ truthy(member(s.audience_inputs, "audience_inputs"))
            /\ isArray(member(s.audience_inputs, "audience_inputs"))
    THEN returned([NoUpdate EXCEPT
                     !.audience_inputs = member(s.audience_inputs, "audience_inputs")])
    ELSE returned(NoUpdate)

descriptions(items) == [i \in DOMAIN items |-> items[i].description]

\* item => item.category === category
getCategoryItems(inputItems, category) ==
    LET matches(item) == item.category = category
    IN  descriptions(SelectSeq(inputItems, matches))

\* the groups planStory interpolates into its prompt; an empty group adds no text
storyPlanPrompt(inputItems, sceneCount) ==
    [characters |-> getCategoryItems(inputItems, character_description),
     settings |-> getCategoryItems(inputItems, setting_description),
     plotTwists |-> getCategoryItems(inputItems, plot_hyphen_twist),
     props |-> getCategoryItems(inputItems, significant_prop),
     backstories |-> getCategoryItems(inputItems, character_backstory),
     atmosphericConditions |-> getCategoryItems(inputItems, atmospheric_conditions),
     specialAbilities |-> getCategoryItems(inputItems, special_ability),
     technologyConcepts |-> getCategoryItems(inputItems, technology_concept),
     sceneCount |-> sceneCount]

\* mutant: the placeholders are numbered from zero
RECURSIVE padNarrativeArc_zeroBased(_, _)
padNarrativeArc_zeroBased(narrativeArc, sceneCount) ==
    IF Len(narrativeArc) < sceneCount
    THEN padNarrativeArc_zeroBased(
            Append(narrativeArc,
                   [phase |-> <<"Scene", Len(narrativeArc)>>,
                    description |-> "Continuation of the story..."]),
            sceneCount)
    ELSE narrativeArc

RECURSIVE padNarrativeArc(_, _)
padNarrativeArc(narrativeArc, sceneCount) ==
    IF Len(narrativeArc) < sceneCount
    THEN padNarrativeArc(
            Append(narrativeArc,
                   [phase |-> <<"Scene", Len(narrativeArc) + 1>>,
                    description |-> "Continuation of the story..."]),
            sceneCount)
    ELSE narrativeArc

\* mutant: pads a short answer, does not trim a long one
repairNarrativeArc_padOnly(narrativeArc, sceneCount) ==
    IF Len(narrativeArc) < sceneCount THEN padNarrativeArc(narrativeArc, sceneCount)
    ELSE narrativeArc

repairNarrativeArc(narrativeArc, sceneCount) ==
    IF Len(narrativeArc) < sceneCount THEN padNarrativeArc(narrativeArc, sceneCount)
    ELSE IF Len(narrativeArc) > sceneCount THEN slice(narrativeArc, sceneCount)
    ELSE narrativeArc

\* state.audience_inputs || []
inputItemsOf(s) ==
    IF truthy(s.audience_inputs) THEN s.audience_inputs ELSE Arr(<<>>)

\* mutant: re-planning starts the critique state afresh
planStory_resetCritique(s, sceneCount, answer) ==
    IF ~isArray(inputItemsOf(s)) THEN thrown("TypeError")
    ELSE IF answer = PortError THEN thrown("port")
    ELSE returned([NoUpdate EXCEPT
            !.narrativeCritique = defaultCritique,
            !.storyPlan = [title |-> answer.title, premise |-> answer.premise,
                           narrativeArc |->
                               repairNarrativeArc(answer.narrativeArc, sceneCount)]])

planStory(s, sceneCount, answer) ==
    IF ~isArray(inputItemsOf(s)) THEN thrown("TypeError")   \* .filter is no function
    ELSE IF answer = PortError THEN thrown("port")
    ELSE returned([NoUpdate EXCEPT
            !.storyPlan = [title |-> answer.title, premise |-> answer.premise,
                           narrativeArc |->
                               repairNarrativeArc(answer.narrativeArc, sceneCount)]])

\* mutant: forces approval one critique late
forceApproval_late(revisionCount, revisionLimit, isApproved) ==
    IF revisionCount > revisionLimit THEN TRUE ELSE isApproved

\* mutant: forces approval only when no revision is allowed
forceApproval_zeroOnly(revisionCount, revisionLimit, isApproved) ==
    IF revisionLimit = 0 THEN TRUE ELSE isApproved

\* mutant: never forces approval
forceApproval_never(revisionCount, revisionLimit, isApproved) == isApproved

\* const isApproved = revisionCount >= CONFIG.revisionLimit ? true : critique.isApproved
forceApproval(revisionCount, revisionLimit, isApproved) ==
    IF revisionCount >= revisionLimit THEN TRUE ELSE isApproved

critiqueNarrative(s, revisionLimit, answer) ==
    IF answer = PortError THEN thrown("port")
    ELSE LET revisionCount == s.narrativeCritique.revisionCount + 1
         IN  returned([NoUpdate EXCEPT
                !.narrativeCritique =
                    [isApproved |-> forceApproval(revisionCount, revisionLimit,
                                                  answer.isApproved),
                     feedback |-> answer.feedback,
                     revisionCount |-> revisionCount]])

\* mutant: the router sends every critique back to planStory
narrativeCritiqueRouter_again(s, revisionLimit) == "planStory"

\* mutant: the router counts revisions and ignores the verdict
narrativeCritiqueRouter_countOnly(s, revisionLimit) ==
    IF s.narrativeCritique.revisionCount <= revisionLimit THEN "planStory"
    ELSE "sceneGenerationCoordinator"

\* mutant: the router lets every critique through to scene generation
narrativeCritiqueRouter_proceed(s, revisionLimit) == "sceneGenerationCoordinator"

\* mutant: a rejected plan is routed to a node the conditional edge does not declare
narrativeCritiqueRouter_undeclared(s, revisionLimit) ==
    IF s.narrativeCritique.isApproved THEN "sceneGenerationCoordinator"
    ELSE IF s.narrativeCritique.revisionCount < revisionLimit THEN "critiqueNarrative"
    ELSE "sceneGenerationCoordinator"

narrativeCritiqueRouter(s, revisionLimit) ==
    IF s.narrativeCritique.isApproved THEN "sceneGenerationCoordinator"
    ELSE IF s.narrativeCritique.revisionCount < revisionLimit THEN "planStory"
    ELSE "sceneGenerationCoordinator"

Send(node, arg) == [node |-> node, input |-> arg]

mapScenesToGenerate(s) ==
    [index \in DOMAIN s.storyPlan.narrativeArc |->
        Send("generateSingleScene",
             [sceneNumber |-> index,
              storyTitle |-> s.storyPlan.title,
              storyPremise |-> s.storyPlan.premise,
              narrativePhase |-> s.storyPlan.narrativeArc[index]])]

\* mutant: the scene is numbered by the branches that have completed so far
scenePrompt_sharedState(arg, sceneCount) ==
    [sceneNumber |-> Len(writes) + 1, sceneCount |-> sceneCount,
     storyTitle |-> arg.storyTitle, storyPremise |-> arg.storyPremise,
     narrativePhase |-> arg.narrativePhase, cliffhanger |-> TRUE]

\* what the scene prompt interpolates; its last sentence, the cliffhanger
\* instruction, is part of the template and so of every request
scenePrompt(arg, sceneCount) ==
    [sceneNumber |-> arg.sceneNumber, sceneCount |-> sceneCount,
     storyTitle |-> arg.storyTitle, storyPremise |-> arg.storyPremise,
     narrativePhase |-> arg.narrativePhase, cliffhanger |-> TRUE]

\* mutant: a failed call is replaced by a placeholder scene
generateSingleScene_placeholder(arg, answer) ==
    returned([NoUpdate EXCEPT !.scenes =
        <<IF answer = PortError
          THEN [sceneNumber |-> arg.sceneNumber, title |-> <<"title", arg.sceneNumber>>,
                description |-> "Continuation of the story..."]
          ELSE answer>>])

generateSingleScene(arg, answer) ==
    IF answer = PortError THEN thrown("port")
    ELSE returned([NoUpdate EXCEPT !.scenes = <<answer>>])

mapScenesToVisualProcessing(s) ==
    [i \in DOMAIN s.scenes |->
        Send("processVisualForScene", [scene |-> s.scenes[i]])]

\* mutant: takes the first visual description, whatever its sceneNumber
find_first(vds, sceneNumber) == IF vds = <<>> THEN Undefined ELSE Head(vds)

\* Array.prototype.find
RECURSIVE find(_, _)
find(vds, sceneNumber) ==
    IF vds = <<>> THEN Undefined
    ELSE IF Head(vds).sceneNumber = sceneNumber THEN Head(vds)
    ELSE find(Tail(vds), sceneNumber)

joinScene(sc, vds) ==
    LET vd == find(vds, sc.sceneNumber)
    IN  [sceneNumber |-> sc.sceneNumber, title |-> sc.title,
         description |-> sc.description,
         imagePrompt |-> IF truthy(vd) THEN vd.imagePrompt ELSE <<>>]

\* mutant: the sorted scenes are written back to the scenes channel
formatOutput_writesScenes(s) ==
    LET finalScenes == [i \in DOMAIN s.scenes |->
                            joinScene(s.scenes[i], s.visualDescriptions)]
    IN  returned([NoUpdate EXCEPT
            !.scenes = sortBySceneNumber(s.scenes),
            !.finalOutput = [title |-> s.storyPlan.title,
                             premise |-> s.storyPlan.premise,
                             scenes |-> sortBySceneNumber(finalScenes)]])

formatOutput(s) ==
    LET finalScenes == [i \in DOMAIN s.scenes |->
                            joinScene(s.scenes[i], s.visualDescriptions)]
    IN  returned([NoUpdate EXCEPT
            !.finalOutput = [title |-> s.storyPlan.title,
                             premise |-> s.storyPlan.premise,
                             scenes |-> sortBySceneNumber(finalScenes)]])

(***************************************************************************)
(* The visual sub-workflow (graph.ts)                                      *)
(***************************************************************************)
visualPrompt(s) ==
    [sceneNumber |-> s.scene.sceneNumber, title |-> s.scene.title,
     description |-> s.scene.description]

createVisualDescription(s, answer) ==
    IF answer = PortError THEN thrown("port")
    ELSE returned([NoUpdate EXCEPT
            !.visualDescription = [sceneNumber |-> answer.sceneNumber,
                                   visualElements |-> answer.visualElements,
                                   imagePrompt |-> answer.imagePrompt]])

critiqueVisual(s, revisionLimit, answer) ==
    IF answer = PortError THEN thrown("port")
    ELSE LET revisionCount == s.visualCritique.revisionCount + 1
         IN  returned([NoUpdate EXCEPT
                !.visualCritique =
                    [isApproved |-> forceApproval(revisionCount, revisionLimit,
                                                  answer.isApproved),
                     feedback |-> answer.feedback,
                     revisionCount |-> revisionCount]])

visualCritiqueRouter(s, revisionLimit) ==
    IF s.visualCritique.isApproved THEN "__end__"
    ELSE IF s.visualCritique.revisionCount < revisionLimit
    THEN "createVisualDescription"
    ELSE "__end__"


\* mutant: the sub-workflow starts from the main graph's critique state
subgraphInput_sharedCritique(arg) ==
    [scene |-> arg.scene, visualDescription |-> Undefined,
     visualCritique |-> narrativeCritique]

\* the sub-workflow's initial state for the input { scene }
subgraphInput(arg) ==
    [scene |-> arg.scene, visualDescription |-> Undefined,
     visualCritique |-> defaultCritique]

\* critiqueVisual and the router, from the sub-state s1 that
\* createVisualDescription left, for every answer of the Generation Port
critiquePass(s1, cfg) ==
    UNION {
        { IF ~critiqued.ok
          THEN [ok |-> FALSE, state |-> s1, goto |-> "__end__"]
          ELSE [ok |-> TRUE, state |-> applyUpdate(s1, critiqued.update),
                goto |-> visualCritiqueRouter(applyUpdate(s1, critiqued.update),
                                              cfg.revisionLimit)]
          : critiqued \in {critiqueVisual(s1, cfg.revisionLimit, c)} }
        : c \in CritiqueAnswers \cup {PortError} }

\* createVisualDescription, critiqueVisual and the router once, from sub-state s,
\* for every pair of answers of the Generation Port
visualPass(s, cfg) ==
    UNION {
        UNION { IF ~created.ok
                THEN {[ok |-> FALSE, state |-> s, goto |-> "__end__"]}
                ELSE critiquePass(applyUpdate(s, created.update), cfg)
                : created \in {createVisualDescription(s, a)} }
        : a \in VisualAnswers(visualPrompt(s)) \cup {PortError} }

\* singleSceneVisualProcessingSubgraph.invoke: every result a run from one of the
\* sub-states of the frontier (each about to run createVisualDescription) can have
RECURSIVE invokeSubgraph(_, _)
invokeSubgraph(frontier, cfg) ==
    IF frontier = {} THEN {}
    ELSE UNION {
            {[ok |-> r.ok, state |-> r.state] : r \in {x \in passes : x.goto = "__end__"}}
                \cup invokeSubgraph({r.state : r \in {x \in passes : x.goto # "__end__"}},
                                    cfg)
            : passes \in {UNION {visualPass(s, cfg) : s \in frontier}} }

processVisualForScene(arg, result) ==
    IF ~result.ok THEN thrown("port")
    ELSE returned([NoUpdate EXCEPT
            !.visualDescriptions = <<result.state.visualDescription>>])

(***************************************************************************)
(* Nodes of the linear graph (part_003)                                    *)
(***************************************************************************)
\* item.category === category || item.category === category.replace("_", "-")
getCategoryItemsLinear(inputItems, category) ==
    LET matches(item) == \/ item.category = category
                         \/ item.category = replace(category, "_", "-")
    IN  descriptions(SelectSeq(inputItems, matches))

storyPlanPromptLinear(inputItems, sceneCount) ==
    [characters |-> getCategoryItemsLinear(inputItems, character),
     settings |-> getCategoryItemsLinear(inputItems, setting),
     plotTwists |-> slice(getCategoryItemsLinear(inputItems, plot_twist), 1),
     sceneCount |-> sceneCount]

RECURSIVE padScenes(_, _)
padScenes(plans, sceneCount) ==
    IF Len(plans) < sceneCount
    THEN padScenes(Append(plans, [title |-> <<"Scene", Len(plans) + 1>>,
                                  description |-> "Continuation of the mystery..."]),
                   sceneCount)
    ELSE plans

repairScenes(plans, sceneCount) ==
    IF Len(plans) # sceneCount
    THEN slice(padScenes(plans, sceneCount), sceneCount)
    ELSE plans

generatedScenePlans(k) ==
    [j \in 1..k |-> [title |-> <<"plan", j>>, description |-> "generated"]]

StoryPlanAnswersLinear(sceneCount) ==
    {[title |-> h.title, premise |-> h.premise, scenes |-> generatedScenePlans(k)] :
        h \in PlanHeads, k \in 0..(sceneCount + MaxExtra)}

planStoryLinear(s, sceneCount, answer) ==
    IF ~isArray(inputItemsOf(s)) THEN thrown("TypeError")
    ELSE IF answer = PortError THEN thrown("port")
    ELSE returned([NoUpdate EXCEPT
            !.storyPlan = [title |-> answer.title, premise |-> answer.premise,
                           scenes |-> repairScenes(answer.scenes, sceneCount)]])

scenePromptLinear(s, sceneNumber, sceneCount) ==
    [sceneNumber |-> sceneNumber, sceneCount |-> sceneCount,
     storyTitle |-> s.storyPlan.title,
     plan |-> s.storyPlan.scenes[sceneNumber].title,
     cliffhanger |-> (sceneNumber = sceneCount)]

\* the answers to the sceneCount calls of the loop, one per iteration
SceneAnswersLinear(s, sceneCount) ==
    LET any == UNION {SceneAnswers(scenePromptLinear(s, n, sceneCount)) :
                        n \in 1..sceneCount} \cup {PortError}
    IN  {f \in [1..sceneCount -> any] :
            \A n \in 1..sceneCount :
                f[n] \in SceneAnswers(scenePromptLinear(s, n, sceneCount))
                            \cup {PortError}}

\* the iteration of the loop that makes the last call: the first that throws
lastCall(answers) ==
    IF \E n \in DOMAIN answers : answers[n] = PortError
    THEN CHOOSE n \in DOMAIN answers :
            /\ answers[n] = PortError
            /\ \A m \in 1..(n - 1) : answers[m] # PortError
    ELSE Len(answers)

\* mutant: a failed call ends the loop and the scenes made so far are returned
generateScenes_keepsPartial(s, sceneCount, answers) ==
    returned([NoUpdate EXCEPT !.scenes =
        IF \E n \in 1..sceneCount : answers[n] = PortError
        THEN SubSeq(answers, 1, lastCall(answers) - 1)
        ELSE answers])

\* the loop stops at the first call that throws
generateScenes(s, sceneCount, answers) ==
    IF \E n \in 1..sceneCount : answers[n] = PortError THEN thrown("port")
    ELSE returned([NoUpdate EXCEPT !.scenes = answers])

formatOutputLinear(s) ==
    LET finalScenes == sortBySceneNumber(s.scenes)
        simplifiedScenes ==
            [i \in DOMAIN finalScenes |->
                [sceneNumber |-> finalScenes[i].sceneNumber,
                 title |-> finalScenes[i].title,
                 description |-> finalScenes[i].description]]
    IN  returned([NoUpdate EXCEPT
            !.finalOutput = [title |-> s.storyPlan.title,
                             premise |-> s.storyPlan.premise,
                             scenes |-> simplifiedScenes]])

(***************************************************************************)
(* The workshop graph (part_004) with critiqueScenes wired in              *)
(***************************************************************************)
\* the object literal critiqueScenes pushes: it has no property
EmptyObject == [kind |-> "object"]

\* the critique of one scene; critiqueScenes does not read it
SceneCritiqueAnswers == {[kind |-> "critique"]}

\* one Generation Port call per entry of state.scenes; the loop stops at the
\* first call that throws
critiqueScenes(s, answers) ==
    IF \E i \in DOMAIN s.scenes : answers[i] = PortError THEN thrown("port")
    ELSE returned([NoUpdate EXCEPT
            !.scenes = [i \in DOMAIN s.scenes |-> EmptyObject]])

\* (a, b) => a.sceneNumber - b.sceneNumber; with a sceneNumber missing the
\* difference is NaN, which sort takes as +0
compareSceneNumber(a, b) ==
    IF "sceneNumber" \in DOMAIN a /\ "sceneNumber" \in DOMAIN b
    THEN a.sceneNumber - b.sceneNumber
    ELSE 0

\* [...state.scenes].sort(...) of the workshop graph
sortWorkshop(s) ==
    LET before(j, i) == \/ compareSceneNumber(s[j], s[i]) < 0
                        \/ compareSceneNumber(s[j], s[i]) = 0 /\ j < i
        position(i) == Cardinality({j \in DOMAIN s : before(j, i)}) + 1
    IN  [p \in DOMAIN s |-> s[CHOOSE i \in DOMAIN s : position(i) = p]]

\* the properties formatOutput copies; one that is undefined is left out
simplified(sc) ==
    [k \in {"sceneNumber", "title", "description", "imagePrompt"} \cap DOMAIN sc |->
        sc[k]]

formatOutputWorkshop(s) ==
    LET finalScenes == sortWorkshop(s.scenes)
    IN  returned([NoUpdate EXCEPT
            !.finalOutput = [title |-> s.storyPlan.title,
                             premise |-> s.storyPlan.premise,
                             scenes |-> [i \in DOMAIN finalScenes |->
                                            simplified(finalScenes[i])]]])

(***************************************************************************)
(* Nodes of the skeleton graph (skeleton_graph.ts)                         *)
(***************************************************************************)
\* what new Date().toISOString() may give
Times == {"t1", "t2"}

\* what a caller passes as userInput
UserInputs ==
    {[query |-> q, parameters |-> "parameters"] : q \in {"query A", "query B"}}

AnalysisAnswers ==
    {[results |-> <<"result">>, summary |-> "summary", confidence |-> c] :
        c \in {0, 1}}

RecommendationAnswers ==
    {[recommendations |-> <<"recommendation">>, priority |-> p] :
        p \in {"low", "high"}}

processInput(s, now) ==
    returned([NoUpdate EXCEPT
        !.userInput = [query |-> s.userInput.query,
                       parameters |-> s.userInput.parameters,
                       timestamp |-> now]])

analyzeData(s, answer, now) ==
    IF answer = PortError THEN thrown("port")
    ELSE returned([NoUpdate EXCEPT
            !.processedData =
                [results |-> answer.results,
                 metadata |-> [confidence |-> answer.confidence,
                               analysisTimestamp |-> now]]])

generateRecommendations(s, answer) ==
    IF answer = PortError THEN thrown("port")
    ELSE returned([NoUpdate EXCEPT
            !.processedData =
                [results |-> s.processedData.results,
                 metadata |-> s.processedData.metadata,
                 recommendations |-> answer.recommendations,
                 priority |-> answer.priority]])

\* formatOutput of skeleton_graph.ts
formatOutputSkeleton(s, now) ==
    returned([NoUpdate EXCEPT
        !.finalOutput =
            [response |->
                [summary |-> IF "summary" \in DOMAIN s.processedData.metadata
                             THEN s.processedData.metadata.summary
                             ELSE "Analysis complete",
                 results |-> s.processedData.results,
                 recommendations |-> s.processedData.recommendations],
             status |-> "success",
             additionalInfo |->
                [confidence |-> s.processedData.metadata.confidence,
                 priority |-> s.processedData.priority,
                 processedAt |-> now]]])

(***************************************************************************)
(* The graphs: static edges, and the engine's superstep                    *)
(***************************************************************************)
Nodes ==
    <<"processInputs", "planStory", "critiqueNarrative",
      "sceneGenerationCoordinator", "generateSingleScene",
      "visualProcessingCoordinator", "processVisualForScene", "formatOutput",
      "generateScenes", "createVisualDescription", "critiqueVisual",
      "processInput", "analyzeData", "generateRecommendations",
      "critiqueScenes">>

\* mutant: formatOutput does not wait for the visual branches
mainEdges_noBarrier(node) ==
    CASE node = "__start__" -> {"processInputs"}
      [] node = "processInputs" -> {"planStory"}
      [] node = "planStory" -> {"critiqueNarrative"}
      [] node = "sceneGenerationCoordinator" -> {"visualProcessingCoordinator"}
      [] node = "generateSingleScene" -> {"visualProcessingCoordinator", "formatOutput"}
      [] node = "processVisualForScene" -> {"formatOutput"}
      [] node = "formatOutput" -> {"__end__"}
      [] OTHER -> {}

\* comicBookGraph of graph.ts
mainEdges(node) ==
    CASE node = "__start__" -> {"processInputs"}
      [] node = "processInputs" -> {"planStory"}
      [] node = "planStory" -> {"critiqueNarrative"}
      [] node = "sceneGenerationCoordinator" -> {"visualProcessingCoordinator"}
      [] node = "generateSingleScene" -> {"visualProcessingCoordinator"}
      [] node = "processVisualForScene" -> {"formatOutput"}
      [] node = "formatOutput" -> {"__end__"}
      [] OTHER -> {}

\* mutant: the plan goes straight to formatOutput
linearEdges_skip(node) ==
    CASE node = "__start__" -> {"processInputs"}
      [] node = "processInputs" -> {"planStory"}
      [] node = "planStory" -> {"formatOutput"}
      [] node = "generateScenes" -> {"formatOutput"}
      [] node = "formatOutput" -> {"__end__"}
      [] OTHER -> {}

\* comicBookGraph of part_003
linearEdges(node) ==
    CASE node = "__start__" -> {"processInputs"}
      [] node = "processInputs" -> {"planStory"}
      [] node = "planStory" -> {"generateScenes"}
      [] node = "generateScenes" -> {"formatOutput"}
      [] node = "formatOutput" -> {"__end__"}
      [] OTHER -> {}

\* singleSceneVisualProcessingSubgraph
visualEdges(node) ==
    CASE node = "__start__" -> {"createVisualDescription"}
      [] node = "createVisualDescription" -> {"critiqueVisual"}
      [] OTHER -> {}

\* comicBookGraph of part_004 with the three commented lines put in
workshopEdges(node) ==
    CASE node = "__start__" -> {"processInputs"}
      [] node = "processInputs" -> {"planStory"}
      [] node = "planStory" -> {"generateScenes"}
      [] node = "generateScenes" -> {"formatOutput", "critiqueScenes"}
      [] node = "critiqueScenes" -> {"formatOutput"}
      [] node = "formatOutput" -> {"__end__"}
      [] OTHER -> {}

\* processingGraph of skeleton_graph.ts
skeletonEdges(node) ==
    CASE node = "__start__" -> {"processInput"}
      [] node = "processInput" -> {"analyzeData"}
      [] node = "analyzeData" -> {"generateRecommendations"}
      [] node = "generateRecommendations" -> {"formatOutput"}
      [] node = "formatOutput" -> {"__end__"}
      [] OTHER -> {}

edges(g, node) ==
    CASE g = "main" -> mainEdges(node)
      [] g = "linear" -> linearEdges(node)
      [] g = "visual" -> visualEdges(node)
      [] g = "skeleton" -> skeletonEdges(node)
      [] g = "workshop" -> workshopEdges(node)

StateTask(node) == [node |-> node, input |-> Undefined]

RECURSIVE allSends(_)
allSends(ws) == IF ws = <<>> THEN <<>> ELSE Head(ws).sends \o allSends(Tail(ws))

\* mutant: a node runs once for every writer that triggered it
RECURSIVE perWriter(_)
perWriter(ws) ==
    IF ws = <<>> THEN <<>>
    ELSE LET isTriggered(n) == n \in Head(ws).next
             nodes == SelectSeq(Nodes, isTriggered)
         IN  [i \in DOMAIN nodes |-> StateTask(nodes[i])] \o perWriter(Tail(ws))

nextTasks_perWriter(ws) == perWriter(ws) \o allSends(ws)

\* a node runs once however many writers triggered it; every Send is a task
nextTasks(ws) ==
    LET triggered == UNION {ws[i].next : i \in DOMAIN ws}
        isTriggered(n) == n \in triggered
        nodes == SelectSeq(Nodes, isTriggered)
    IN  [i \in DOMAIN nodes |-> StateTask(nodes[i])] \o allSends(ws)

Pending(node) == {i \in DOMAIN tasks \ done : tasks[i].node = node}

\* task i ends with this outcome, having triggered next and sent sends
Complete(i, outcome, next, sends) ==
    IF ~outcome.ok
    THEN /\ status' = "failed"
         /\ tasks' = <<>>
         /\ done' = {}
         /\ writes' = <<>>
         /\ UNCHANGED channels
    ELSE LET ws == Append(writes, [update |-> outcome.update, next |-> next,
                                   sends |-> sends])
         IN  IF done \cup {i} = DOMAIN tasks
             THEN \E s \in {applyWrites(State, ws)}, nt \in {nextTasks(ws)} :
                      /\ audience_inputs' = s.audience_inputs
                      /\ storyPlan' = s.storyPlan
                      /\ narrativeCritique' = s.narrativeCritique
                      /\ scenes' = s.scenes
                      /\ visualDescriptions' = s.visualDescriptions
                      /\ finalOutput' = s.finalOutput
                      /\ scene' = s.scene
                      /\ visualDescription' = s.visualDescription
                      /\ visualCritique' = s.visualCritique
                      /\ userInput' = s.userInput
                      /\ processedData' = s.processedData
                      /\ tasks' = nt
                      /\ done' = {}
                      /\ writes' = <<>>
                      /\ status' = IF nt = <<>> THEN "done" ELSE "running"
             ELSE /\ done' = done \cup {i}
                  /\ writes' = ws
                  /\ UNCHANGED <<tasks, status, channels>>

\* the channels as the task's own conditional edge reads them
fresh(outcome) == applyUpdate(State, outcome.update)

\* the counters are capped above what any run of the graphs reaches
called(node) == calls[node] < MaxCalls /\ calls' = [calls EXCEPT ![node] = @ + 1]


(***************************************************************************)
(* Invocations                                                             *)
(***************************************************************************)
item(category, description) == [category |-> category, description |-> description]

\* what a caller passes as audience_inputs: the flat form, the wrapped form,
\* and values that are neither
Inputs ==
    {Arr(<<>>),
     Arr(<<item(plot_twist, "a twist")>>),
     Arr(<<item(character, "an astronaut"), item(plot_hyphen_twist, "a twist")>>),
     Obj(Arr(<<item(plot_twist, "a twist")>>)),
     Obj(Str("oops")),
     Str("oops")}

\* every input with one scene, one input with more
InputsFor(g, sceneCount) ==
    IF g \in {"visual", "skeleton"} THEN {Arr(<<>>)}
    ELSE IF sceneCount = 1 THEN Inputs
    ELSE {Arr(<<item(plot_twist, "a twist")>>)}

\* the scene a caller of the sub-workflow passes
SceneInputs(sceneCount) ==
    {[sceneNumber |-> n, title |-> <<"title", i>>, description |-> "description"] :
        n \in 1..sceneCount, i \in 1..sceneCount}

Init ==
    /\ graph \in {"main", "linear", "visual", "skeleton", "workshop"}
    /\ CONFIG \in [sceneCount : 1..MaxSceneCount, revisionLimit : 0..MaxRevisionLimit]
    /\ graph = "linear" => CONFIG.revisionLimit = 0
    /\ graph \in {"skeleton", "workshop"} =>
          CONFIG = [sceneCount |-> 1, revisionLimit |-> 0]
    /\ input \in InputsFor(graph, CONFIG.sceneCount)
    /\ audience_inputs = replaceReducer(Arr(<<>>), input)
    /\ storyPlan = Undefined
    /\ narrativeCritique = defaultCritique
    /\ scenes = <<>>
    /\ visualDescriptions = <<>>
    /\ finalOutput = Undefined
    /\ scene \in IF graph = "visual" THEN SceneInputs(CONFIG.sceneCount)
                 ELSE {Undefined}
    /\ visualDescription = Undefined
    /\ visualCritique = defaultCritique
    /\ userInput \in IF graph = "skeleton" THEN UserInputs ELSE {Undefined}
    /\ processedData = Undefined
    /\ tasks = [i \in 1..1 |-> StateTask(CHOOSE n \in edges(graph, "__start__") : TRUE)]
    /\ done = {}
    /\ writes = <<>>
    /\ status = "running"
    /\ calls = [n \in Range(Nodes) |-> 0]
    /\ port = [failed |-> FALSE, critique |-> Undefined,
               rejections |-> 0, prompt |-> Undefined, request |-> Undefined,
               planned |-> <<>>, analysis |-> Undefined, recommended |-> Undefined]

asked(answer) == [port EXCEPT !.failed = @ \/ answer = PortError]

(***************************************************************************)
(* Steps of the main graph                                                 *)
(***************************************************************************)
ProcessInputs ==
    /\ called("processInputs")
    /\ \E i \in Pending("processInputs") :
           /\ Complete(i, processInputs(State), edges(graph, "processInputs"), <<>>)
           /\ UNCHANGED <<graph, CONFIG, input, port>>

PlanStory ==
    /\ called("planStory")
    /\ graph = "main"
    /\ \E i \in Pending("planStory") :
       \E answer \in StoryPlanAnswers(CONFIG.sceneCount) \cup {PortError} :
          LET outcome == planStory(State, CONFIG.sceneCount, answer)
          IN  /\ Complete(i, outcome, edges(graph, "planStory"), <<>>)
              /\ port' = IF outcome.error = "TypeError" THEN port
                         ELSE [asked(answer) EXCEPT
                                !.prompt = storyPlanPrompt(inputItemsOf(State).items,
                                                           CONFIG.sceneCount),
                                !.planned =
                                    IF answer = PortError THEN @
                                    ELSE [j \in 1..(IF Len(answer.narrativeArc)
                                                        < CONFIG.sceneCount
                                                    THEN Len(answer.narrativeArc)
                                                    ELSE CONFIG.sceneCount) |->
                                            answer.narrativeArc[j]]]
    /\ UNCHANGED <<graph, CONFIG, input>>

CritiqueNarrative ==
    /\ called("critiqueNarrative")
    /\ \E i \in Pending("critiqueNarrative") :
       \E answer \in CritiqueAnswers \cup {PortError} :
          LET outcome == critiqueNarrative(State, CONFIG.revisionLimit, answer)
          IN  /\ Complete(i, outcome,
                    IF outcome.ok
                    THEN {narrativeCritiqueRouter(fresh(outcome), CONFIG.revisionLimit)}
                    ELSE {},
                    <<>>)
              /\ port' = [asked(answer) EXCEPT
                            !.critique = answer,
                            !.rejections = IF answer # PortError /\ ~answer.isApproved
                                           THEN @ + 1 ELSE @]
    /\ UNCHANGED <<graph, CONFIG, input>>

SceneGenerationCoordinator ==
    /\ called("sceneGenerationCoordinator")
    /\ \E i \in Pending("sceneGenerationCoordinator") :
          Complete(i, returned(NoUpdate), edges(graph, "sceneGenerationCoordinator"),
                   mapScenesToGenerate(State))
    /\ UNCHANGED <<graph, CONFIG, input, port>>

GenerateSingleScene ==
    /\ called("generateSingleScene")
    /\ \E i \in Pending("generateSingleScene") :
       \E answer \in SceneAnswers(scenePrompt(tasks[i].input, CONFIG.sceneCount))
                        \cup {PortError} :
          /\ Complete(i, generateSingleScene(tasks[i].input, answer),
                      edges(graph, "generateSingleScene"), <<>>)
          /\ port' = [asked(answer) EXCEPT
                        !.request = scenePrompt(tasks[i].input, CONFIG.sceneCount)]
    /\ UNCHANGED <<graph, CONFIG, input>>

VisualProcessingCoordinator ==
    /\ called("visualProcessingCoordinator")
    /\ \E i \in Pending("visualProcessingCoordinator") :
          Complete(i, returned(NoUpdate), edges(graph, "visualProcessingCoordinator"),
                   mapScenesToVisualProcessing(State))
    /\ UNCHANGED <<graph, CONFIG, input, port>>

ProcessVisualForScene ==
    /\ called("processVisualForScene")
    /\ \E i \in Pending("processVisualForScene") :
       \E outcome \in {processVisualForScene(tasks[i].input, result) :
                        result \in invokeSubgraph({subgraphInput(tasks[i].input)},
                                                  CONFIG)} :
          /\ Complete(i, outcome, edges(graph, "processVisualForScene"), <<>>)
          /\ port' = [port EXCEPT
                        !.failed = @ \/ outcome.error = "port",
                        !.request = visualPrompt(subgraphInput(tasks[i].input))]
    /\ UNCHANGED <<graph, CONFIG, input>>

FormatOutput ==
    /\ called("formatOutput")
    /\ graph = "main"
    /\ \E i \in Pending("formatOutput") :
       \E outcome \in {formatOutput(State)} :
          Complete(i, outcome, edges(graph, "formatOutput"), <<>>)
    /\ UNCHANGED <<graph, CONFIG, input, port>>

(***************************************************************************)
(* Steps of the visual sub-workflow run on its own                         *)
(***************************************************************************)
CreateVisualDescription ==
    /\ called("createVisualDescription")
    /\ \E i \in Pending("createVisualDescription") :
       \E answer \in VisualAnswers(visualPrompt(State))
                        \cup {PortError} :
          /\ Complete(i, createVisualDescription(State, answer),
                      edges(graph, "createVisualDescription"), <<>>)
          /\ port' = [asked(answer) EXCEPT !.request = visualPrompt(State)]
    /\ UNCHANGED <<graph, CONFIG, input>>

CritiqueVisual ==
    /\ called("critiqueVisual")
    /\ \E i \in Pending("critiqueVisual") :
       \E answer \in CritiqueAnswers \cup {PortError} :
          LET outcome == critiqueVisual(State, CONFIG.revisionLimit, answer)
          IN  /\ Complete(i, outcome,
                    IF outcome.ok
                    THEN {visualCritiqueRouter(fresh(outcome), CONFIG.revisionLimit)}
                    ELSE {},
                    <<>>)
              /\ port' = [asked(answer) EXCEPT
                            !.critique = answer,
                            !.rejections = IF answer # PortError /\ ~answer.isApproved
                                           THEN @ + 1 ELSE @]
    /\ UNCHANGED <<graph, CONFIG, input>>

(***************************************************************************)
(* Steps of the linear graph                                               *)
(***************************************************************************)
PlanStoryLinear ==
    /\ called("planStory")
    /\ graph \in {"linear", "workshop"}
    /\ \E i \in Pending("planStory") :
       \E answer \in StoryPlanAnswersLinear(CONFIG.sceneCount) \cup {PortError} :
          LET outcome == planStoryLinear(State, CONFIG.sceneCount, answer)
          IN  /\ Complete(i, outcome, edges(graph, "planStory"), <<>>)
              /\ port' = IF outcome.error = "TypeError" THEN port
                         ELSE [asked(answer) EXCEPT
                                !.prompt = storyPlanPromptLinear(
                                                inputItemsOf(State).items,
                                                CONFIG.sceneCount)]
    /\ UNCHANGED <<graph, CONFIG, input>>

GenerateScenes ==
    /\ called("generateScenes")
    /\ \E i \in Pending("generateScenes") :
       \E answers \in SceneAnswersLinear(State, CONFIG.sceneCount) :
          /\ Complete(i, generateScenes(State, CONFIG.sceneCount, answers),
                      edges(graph, "generateScenes"), <<>>)
          /\ port' = [port EXCEPT
                        !.failed = @ \/ \E n \in DOMAIN answers : answers[n] = PortError,
                        !.request = scenePromptLinear(State, lastCall(answers),
                                                      CONFIG.sceneCount)]
    /\ UNCHANGED <<graph, CONFIG, input>>

FormatOutputLinear ==
    /\ called("formatOutput")
    /\ graph = "linear"
    /\ \E i \in Pending("formatOutput") :
          Complete(i, formatOutputLinear(State), edges(graph, "formatOutput"), <<>>)
    /\ UNCHANGED <<graph, CONFIG, input, port>>

(***************************************************************************)
(* Steps of the skeleton graph                                             *)
(***************************************************************************)
ProcessInput ==
    /\ called("processInput")
    /\ \E i \in Pending("processInput") :
       \E now \in Times :
          Complete(i, processInput(State, now), edges(graph, "processInput"), <<>>)
    /\ UNCHANGED <<graph, CONFIG, input, port>>

AnalyzeData ==
    /\ called("analyzeData")
    /\ \E i \in Pending("analyzeData") :
       \E answer \in AnalysisAnswers \cup {PortError}, now \in Times :
          /\ Complete(i, analyzeData(State, answer, now),
                      edges(graph, "analyzeData"), <<>>)
          /\ port' = [asked(answer) EXCEPT !.analysis = answer]
    /\ UNCHANGED <<graph, CONFIG, input>>

GenerateRecommendations ==
    /\ called("generateRecommendations")
    /\ \E i \in Pending("generateRecommendations") :
       \E answer \in RecommendationAnswers \cup {PortError} :
          /\ Complete(i, generateRecommendations(State, answer),
                      edges(graph, "generateRecommendations"), <<>>)
          /\ port' = [asked(answer) EXCEPT !.recommended = answer]
    /\ UNCHANGED <<graph, CONFIG, input>>

FormatOutputSkeleton ==
    /\ called("formatOutput")
    /\ graph = "skeleton"
    /\ \E i \in Pending("formatOutput") :
       \E now \in Times :
          Complete(i, formatOutputSkeleton(State, now),
                   edges(graph, "formatOutput"), <<>>)
    /\ UNCHANGED <<graph, CONFIG, input, port>>

(***************************************************************************)
(* Steps of the workshop graph                                             *)
(***************************************************************************)
CritiqueScenes ==
    /\ called("critiqueScenes")
    /\ \E i \in Pending("critiqueScenes") :
       \E answers \in [DOMAIN scenes -> SceneCritiqueAnswers \cup {PortError}] :
          /\ Complete(i, critiqueScenes(State, answers),
                      edges(graph, "critiqueScenes"), <<>>)
          /\ port' = [port EXCEPT !.failed =
                        @ \/ \E n \in DOMAIN answers : answers[n] = PortError]
    /\ UNCHANGED <<graph, CONFIG, input>>

FormatOutputWorkshop ==
    /\ called("formatOutput")
    /\ graph = "workshop"
    /\ \E i \in Pending("formatOutput") :
          Complete(i, formatOutputWorkshop(State), edges(graph, "formatOutput"), <<>>)
    /\ UNCHANGED <<graph, CONFIG, input, port>>

Next ==
    \/ ProcessInputs
    \/ PlanStory
    \/ CritiqueNarrative
    \/ SceneGenerationCoordinator
    \/ GenerateSingleScene
    \/ VisualProcessingCoordinator
    \/ ProcessVisualForScene
    \/ FormatOutput
    \/ CreateVisualDescription
    \/ CritiqueVisual
    \/ PlanStoryLinear
    \/ GenerateScenes
    \/ FormatOutputLinear
    \/ ProcessInput
    \/ AnalyzeData
    \/ GenerateRecommendations
    \/ FormatOutputSkeleton
    \/ CritiqueScenes
    \/ FormatOutputWorkshop

Spec == Init /\ [][Next]_vars

\* invocations of the main graph (the fan-out one scene narrower than in Spec)
InitMain ==
    /\ Init
    /\ graph = "main"
    /\ CONFIG.sceneCount < MaxSceneCount \/ MaxSceneCount = 1

NextMain ==
    \/ ProcessInputs
    \/ PlanStory
    \/ CritiqueNarrative
    \/ SceneGenerationCoordinator
    \/ GenerateSingleScene
    \/ VisualProcessingCoordinator
    \/ ProcessVisualForScene
    \/ FormatOutput

\* a task that is ready runs: every node is an async function that the runtime
\* awaits, and a Generation Port call returns or throws
FairSpec == InitMain /\ [][NextMain]_vars /\ WF_vars(NextMain)


(***************************************************************************)
(* Properties                                                              *)
(***************************************************************************)
\* the documented forms of the input: the flat array and the wrapped array
documented(v) == isArray(v) \/ isArray(member(v, "audience_inputs"))

critiqueNode == IF graph = "visual" THEN "critiqueVisual" ELSE "critiqueNarrative"
critiqueState == IF graph = "visual" THEN visualCritique ELSE narrativeCritique

\* the revision loop is over: no task of the loop is left to run
leftLoop ==
    /\ status # "failed"
    /\ \A i \in DOMAIN tasks :
          tasks[i].node \notin {"processInputs", "planStory", "critiqueNarrative",
                                "createVisualDescription", "critiqueVisual"}

\* C1: whatever number of entries the Generation Port returned, the story plan
\* that planStory wrote has exactly sceneCount entries (narrativeArc in the main
\* graph, scenes in the linear graph), after every execution of planStory.
C1_PlanHasSceneCountEntries ==
    storyPlan # Undefined =>
        IF graph = "main"
        THEN Len(storyPlan.narrativeArc) = CONFIG.sceneCount
        ELSE Len(storyPlan.scenes) = CONFIG.sceneCount

\* planStory ran again after a rejection and padded the answer it got
C1_Witness ==
    /\ graph = "main"
    /\ calls["planStory"] >= 2
    /\ storyPlan # Undefined
    /\ CONFIG.sceneCount >= 2
    /\ storyPlan.narrativeArc[1].phase = <<"phase", 1>>
    /\ storyPlan.narrativeArc[CONFIG.sceneCount].phase = <<"Scene", CONFIG.sceneCount>>

C3_ScenesNumberedInOrder ==
    (graph \in {"main", "linear"} /\ finalOutput # Undefined) =>
        \A i \in DOMAIN finalOutput.scenes : finalOutput.scenes[i].sceneNumber = i

\* C4: with revisionLimit L >= 1 and a critique that has rejected on every call,
\* the critique step runs at most L times, approved is false after each of the
\* first L-1 and true after the L-th, and the loop is left after exactly L.
C4_AlwaysRejectedRunsLimitTimes ==
    (/\ graph \in {"main", "visual"}
     /\ CONFIG.revisionLimit >= 1
     /\ ~port.failed
     /\ port.rejections = calls[critiqueNode]) =>
        /\ calls[critiqueNode] <= CONFIG.revisionLimit
        /\ critiqueState.revisionCount = calls[critiqueNode]
        /\ critiqueState.isApproved <=> calls[critiqueNode] = CONFIG.revisionLimit
        /\ leftLoop => calls[critiqueNode] = CONFIG.revisionLimit

\* the narrative critique rejected twice or more and the run went on
C4_Witness ==
    /\ graph = "main"
    /\ CONFIG.revisionLimit >= 2
    /\ port.rejections = CONFIG.revisionLimit
    /\ calls["critiqueNarrative"] = CONFIG.revisionLimit
    /\ calls["planStory"] = CONFIG.revisionLimit
    /\ narrativeCritique.isApproved
    /\ leftLoop

\* C5 (as claimed): with revisionLimit 0 the stored isApproved after the first
\* critique is the value the Generation Port returned.
C5_FirstCritiqueGoverns ==
    (/\ graph \in {"main", "visual"}
     /\ CONFIG.revisionLimit = 0
     /\ ~port.failed
     /\ calls[critiqueNode] = 1) =>
        critiqueState.isApproved = port.critique.isApproved

\* C5 (amended): with revisionLimit 0 the first critique is forced to approved,
\* whatever the Generation Port returned; the feedback stored is the call's.
C5_FirstCritiqueForced ==
    (/\ graph \in {"main", "visual"}
     /\ CONFIG.revisionLimit = 0
     /\ ~port.failed
     /\ calls[critiqueNode] >= 1) =>
        /\ calls[critiqueNode] = 1
        /\ critiqueState.isApproved
        /\ critiqueState.revisionCount = 1
        /\ critiqueState.feedback = port.critique.feedback

\* the Generation Port rejected and the stored verdict is approved
C5_Witness ==
    /\ graph = "main"
    /\ CONFIG.revisionLimit = 0
    /\ calls["critiqueNarrative"] = 1
    /\ ~port.failed
    /\ ~port.critique.isApproved
    /\ narrativeCritique.isApproved

unmatched(sceneNumber) ==
    \A v \in DOMAIN visualDescriptions :
        visualDescriptions[v].sceneNumber # sceneNumber

\* C6: formatOutput of the main graph emits one entry per scene (the scenes,
\* reordered); an entry whose sceneNumber no visual description has gets an
\* empty imagePrompt, and every other imagePrompt comes from a visual
\* description of the entry's sceneNumber.
C6_LeftOuterJoin ==
    (graph = "main" /\ finalOutput # Undefined) =>
        LET out == finalOutput.scenes
        IN  /\ Len(out) = Len(scenes)
            /\ \E p \in Permutations(DOMAIN scenes) :
                  \A i \in DOMAIN out :
                      /\ out[i].sceneNumber = scenes[p[i]].sceneNumber
                      /\ out[i].title = scenes[p[i]].title
                      /\ out[i].description = scenes[p[i]].description
            /\ \A i \in DOMAIN out :
                  /\ unmatched(out[i].sceneNumber) => out[i].imagePrompt = <<>>
                  /\ out[i].imagePrompt # <<>> =>
                        \E v \in DOMAIN visualDescriptions :
                            /\ visualDescriptions[v].sceneNumber = out[i].sceneNumber
                            /\ visualDescriptions[v].imagePrompt = out[i].imagePrompt

\* a scene without visual description, beside a visual description without scene
C6_Witness ==
    /\ graph = "main"
    /\ finalOutput # Undefined
    /\ \E i \in DOMAIN finalOutput.scenes :
          /\ unmatched(finalOutput.scenes[i].sceneNumber)
          /\ finalOutput.scenes[i].imagePrompt = <<>>
    /\ \E i \in DOMAIN finalOutput.scenes : finalOutput.scenes[i].imagePrompt # <<>>
    /\ \E v \in DOMAIN visualDescriptions :
          \A i \in DOMAIN scenes :
              scenes[i].sceneNumber # visualDescriptions[v].sceneNumber

\* the updates of the branches, merged in the order of dispatch
inDispatchOrder(updates, slot) ==
    LET p == CHOOSE q \in Permutations(DOMAIN updates) :
                \A i, j \in DOMAIN updates :
                    i < j => slot[q[i]] < slot[q[j]]
    IN  [i \in DOMAIN updates |-> updates[p[i]]]

\* what an imagePrompt says of the scene it was written for
subject(imagePrompt) ==
    IF Len(imagePrompt) >= 2 THEN SubSeq(imagePrompt, 1, 2) ELSE imagePrompt

\* the index of the Send that produced each entry
sceneSlot == [i \in DOMAIN scenes |-> scenes[i].title[2]]
visualSlot == [i \in DOMAIN visualDescriptions |-> visualDescriptions[i].imagePrompt[2]]

\* C7 (as claimed): the assembled output is the one the same updates give when
\* merged in the order of dispatch: the order of merging does not show.
C7_MergeOrderDoesNotShow ==
    (graph = "main" /\ finalOutput # Undefined) =>
        finalOutput =
            formatOutput([State EXCEPT
                !.scenes = inDispatchOrder(scenes, sceneSlot),
                !.visualDescriptions = inDispatchOrder(visualDescriptions, visualSlot)
            ]).update.finalOutput

planStoryRan == calls["planStory"] >= 1 /\ isArray(audience_inputs)

lookup(items, category) ==
    IF graph = "main" THEN getCategoryItems(items, category)
    ELSE getCategoryItemsLinear(items, category)

\* C8 (as claimed): an item of category "plot_twist" is found by the grouping
\* lookup of planStory under the request "plot_twist" and under "plot-twist".
C8_BothSpellingsFind ==
    (graph \in {"main", "linear"} /\ planStoryRan) =>
        \A i \in DOMAIN audience_inputs.items :
            audience_inputs.items[i].category = plot_twist =>
                \A request \in {plot_twist, plot_hyphen_twist} :
                    audience_inputs.items[i].description
                        \in Range(lookup(audience_inputs.items, request))

\* C9: the step in which a Generation Port call fails fails the invocation: it
\* leaves every channel as it was (nothing is put in the place of the failed
\* answer), no task is left, formatOutput has not run and finalOutput is unset.
\* (Wired as in the workshop exercise, formatOutput also runs beside
\* critiqueScenes; its update is then lost with the step.)
C9_PortFailureFailsInvocation ==
    [][port'.failed =>
          /\ status' = "failed"
          /\ tasks' = <<>>
          /\ finalOutput' = Undefined
          /\ graph # "workshop" => calls'["formatOutput"] = 0
          /\ ~port.failed => channels' = channels]_vars

\* a call of a visual sub-workflow failed after every scene had been merged
C9_Witness ==
    /\ graph = "main"
    /\ port.failed
    /\ status = "failed"
    /\ Len(scenes) >= 2
    /\ calls["processVisualForScene"] >= 2
    /\ finalOutput = Undefined

\* C10: processInputs turns the wrapped form into the flat array that the flat
\* form of the same input is, leaves a flat array as it is, and changes no
\* other channel.
C10_ProcessInputsFlattens ==
    [][calls'["processInputs"] # calls["processInputs"] =>
          /\ isArray(input) => audience_inputs' = input
          /\ isArray(member(input, "audience_inputs")) =>
                audience_inputs' = Arr(input.audience_inputs.items)
          /\ UNCHANGED <<storyPlan, narrativeCritique, scenes, visualDescriptions,
                         finalOutput, scene, visualDescription, visualCritique>>]_vars

\* the wrapped form has been flattened
C10_Witness ==
    /\ input.kind = "object"
    /\ isArray(member(input, "audience_inputs"))
    /\ calls["processInputs"] = 1
    /\ audience_inputs = Arr(<<item(plot_twist, "a twist")>>)

\* the category groups of the story-plan prompt that was sent
promptGroups ==
    IF graph = "main"
    THEN {port.prompt.characters, port.prompt.settings, port.prompt.plotTwists,
          port.prompt.props, port.prompt.backstories,
          port.prompt.atmosphericConditions, port.prompt.specialAbilities,
          port.prompt.technologyConcepts}
    ELSE {port.prompt.characters, port.prompt.settings, port.prompt.plotTwists}

\* C11 (as claimed): an input that is neither an array nor an object wrapping an
\* array is swallowed: processInputs leaves it as it is, no step raises an error,
\* and planStory builds its prompt with every category group empty.
C11_UnrecognizedInputSwallowed ==
    (graph \in {"main", "linear"} /\ ~documented(input) /\ ~port.failed) =>
        /\ audience_inputs = input
        /\ status # "failed"
        /\ calls["planStory"] >= 1 =>
              /\ port.prompt # Undefined
              /\ \A group \in promptGroups : group = <<>>

\* the categories the README documents and the inputs of the model use
DocumentedCategories == {character, plot_twist}

\* C12 (as claimed): every input item of a documented category is in a category
\* group of the story-plan prompt that planStory sent to the Generation Port.
C12_DocumentedCategoriesInPrompt ==
    (graph = "main" /\ isArray(audience_inputs) /\ port.prompt # Undefined) =>
        \A i \in DOMAIN audience_inputs.items :
            audience_inputs.items[i].category \in DocumentedCategories =>
                \E group \in promptGroups :
                    audience_inputs.items[i].description \in Range(group)

isPrefix(s, longer) == Len(s) <= Len(longer) /\ SubSeq(longer, 1, Len(s)) = s

\* what the tasks that have completed in this superstep returned for a channel
RECURSIVE returnedFor(_, _)
returnedFor(ws, channel) ==
    IF ws = <<>> THEN <<>>
    ELSE Head(ws).update[channel] \o returnedFor(Tail(ws), channel)

appended(old, new, channel) ==
    /\ isPrefix(old, new)
    /\ new # old => isPrefix(old \o returnedFor(writes, channel), new)

\* C13: in every step of every graph the old value of scenes and of
\* visualDescriptions is a prefix of the new one, and the entries merged in a
\* step follow it in the order in which their tasks returned them: no entry is
\* removed, replaced or reordered.
C13_AppendOnly ==
    [][/\ appended(scenes, scenes', "scenes")
       /\ appended(visualDescriptions, visualDescriptions', "visualDescriptions")]_vars

\* both collections were filled by branches, after a re-planning
C13_Witness ==
    /\ graph = "main"
    /\ calls["planStory"] >= 2
    /\ Len(scenes) >= 2
    /\ Len(visualDescriptions) = Len(scenes)
    /\ visualDescriptions[1].imagePrompt # visualDescriptions[2].imagePrompt

ran(node) == calls'[node] # calls[node]

\* the update of the task that has just completed
lastReturned(channel) ==
    IF writes' # <<>> THEN writes'[Len(writes')].update[channel]
    ELSE IF channel = "scenes" THEN <<scenes'[Len(scenes')]>>
    ELSE <<visualDescriptions'[Len(visualDescriptions')]>>

\* C14: the request a scene branch makes is the one for its own narrative phase
\* of the story plan, and the request a visual branch makes is the one for its
\* own scene, whatever the other branches have written and in whatever order
\* they run; the update a branch returns is the one entry answering that request.
C14_BranchSeesOnlyItsInput ==
    [][/\ ran("generateSingleScene") =>
            LET n == port'.request.sceneNumber
            IN  /\ n \in DOMAIN storyPlan.narrativeArc
                /\ port'.request =
                      [sceneNumber |-> n, sceneCount |-> CONFIG.sceneCount,
                       storyTitle |-> storyPlan.title,
                       storyPremise |-> storyPlan.premise,
                       narrativePhase |-> storyPlan.narrativeArc[n],
                       cliffhanger |-> TRUE]
                /\ status' # "failed" =>
                      /\ Len(lastReturned("scenes")) = 1
                      /\ lastReturned("scenes")[1].title = <<"title", n>>
       /\ ran("processVisualForScene") =>
            /\ \E k \in DOMAIN scenes :
                  port'.request = [sceneNumber |-> scenes[k].sceneNumber,
                                   title |-> scenes[k].title,
                                   description |-> scenes[k].description]
            /\ status' # "failed" =>
                  /\ Len(lastReturned("visualDescriptions")) = 1
                  /\ subject(lastReturned("visualDescriptions")[1].imagePrompt)
                        = <<"image", port'.request.title[2]>>]_vars

\* the branch of the first scene made its request after the second had returned
C14_Witness ==
    /\ graph = "main"
    /\ calls["generateSingleScene"] = 2
    /\ port.request # Undefined
    /\ port.request.sceneNumber = 1
    /\ port.request.narrativePhase = storyPlan.narrativeArc[1]
    /\ Len(scenes) = 2
    /\ scenes[1].title = <<"title", 2>>

scheduled(node) == {i \in DOMAIN tasks : tasks[i].node = node}

\* C15: in the main graph formatOutput is scheduled and executed at most once,
\* exactly once in a run that is done, and only when every scene branch and
\* every visual branch has completed and its update is in the shared state.
C15_FormatOutputOnceAfterAllBranches ==
    graph = "main" =>
        /\ calls["formatOutput"] <= 1
        /\ Cardinality(scheduled("formatOutput")) <= 1
        /\ status = "done" => calls["formatOutput"] = 1
        /\ (scheduled("formatOutput") # {} \/ calls["formatOutput"] = 1) =>
              /\ calls["generateSingleScene"] = CONFIG.sceneCount
              /\ calls["processVisualForScene"] = CONFIG.sceneCount
              /\ Len(scenes) = CONFIG.sceneCount
              /\ Len(visualDescriptions) = CONFIG.sceneCount
              /\ \A n \in 1..CONFIG.sceneCount :
                    /\ \E i \in DOMAIN scenes : scenes[i].title = <<"title", n>>
                    /\ \E i \in DOMAIN visualDescriptions :
                          subject(visualDescriptions[i].imagePrompt) = <<"image", n>>

\* formatOutput ran after visual branches that completed out of dispatch order
C15_Witness ==
    /\ graph = "main"
    /\ status = "done"
    /\ calls["formatOutput"] = 1
    /\ Len(visualDescriptions) >= 2
    /\ visualDescriptions[1].imagePrompt = <<"image", 2>>

routerFallsThrough ==
    /\ ~critiqueState.isApproved
    /\ ~(critiqueState.revisionCount < CONFIG.revisionLimit)

\* C17: once a critique step has run, revisionCount >= revisionLimit implies
\* isApproved (not approved implies revisionCount < revisionLimit), so the last
\* branch of narrativeCritiqueRouter and of visualCritiqueRouter is never taken.
C17_LimitReachedImpliesApproved ==
    (graph \in {"main", "visual"} /\ critiqueState.revisionCount >= 1) =>
        /\ critiqueState.revisionCount >= CONFIG.revisionLimit
              => critiqueState.isApproved
        /\ ~critiqueState.isApproved
              => critiqueState.revisionCount < CONFIG.revisionLimit
        /\ ~routerFallsThrough

\* the visual critique rejected at the limit and the stored verdict is approved
C17_Witness ==
    /\ graph = "visual"
    /\ CONFIG.revisionLimit >= 2
    /\ visualCritique.revisionCount = CONFIG.revisionLimit
    /\ port.critique # Undefined
    /\ port.critique # PortError
    /\ ~port.critique.isApproved
    /\ visualCritique.isApproved

\* C18: the visual fan-out has exactly one processVisualForScene task for each
\* entry of scenes, none twice and none skipped: visualProcessingCoordinator
\* runs once beside the scene branches, when scenes is still empty, and once
\* after them; when formatOutput is scheduled visualDescriptions has sceneCount
\* entries.
C18_OneVisualTaskPerScene ==
    graph = "main" =>
        LET visual == scheduled("processVisualForScene")
        IN  /\ calls["visualProcessingCoordinator"] <= 2
            /\ calls["processVisualForScene"] <= Len(scenes)
            /\ visual # {} =>
                  /\ Len(scenes) = CONFIG.sceneCount
                  /\ \A k \in DOMAIN scenes :
                        Cardinality({i \in visual : tasks[i].input.scene = scenes[k]}) = 1
                  /\ Cardinality(visual) = Len(scenes)
            /\ calls["visualProcessingCoordinator"] <= 1 => visual = {}
            /\ scheduled("generateSingleScene") # {} =>
                  /\ scenes = <<>>
                  /\ Cardinality(scheduled("visualProcessingCoordinator")) = 1
            /\ scheduled("formatOutput") # {} =>
                  /\ calls["processVisualForScene"] = CONFIG.sceneCount
                  /\ Len(visualDescriptions) = CONFIG.sceneCount

\* the visual tasks of two scenes are scheduled and one of them has completed
C18_Witness ==
    /\ graph = "main"
    /\ calls["visualProcessingCoordinator"] = 2
    /\ Cardinality(scheduled("processVisualForScene")) = 2
    /\ calls["processVisualForScene"] = 1
    /\ status = "running"
    /\ scenes[1].title = <<"title", 2>>

\* C19 (as claimed): a scene branch appends exactly one Scene, and the Scene's
\* sceneNumber is the sceneNumber of the branch's own input.
C19_SceneCarriesTaskNumber ==
    [][(ran("generateSingleScene") /\ status' # "failed") =>
          /\ Len(lastReturned("scenes")) = 1
          /\ lastReturned("scenes")[1].sceneNumber = port'.request.sceneNumber]_vars

\* every scene carries the number of the branch that wrote it
ownNumbers ==
    \A i \in DOMAIN scenes : scenes[i].sceneNumber = scenes[i].title[2]

\* C20 (as claimed): in a run that is done the imagePrompt of each scene of
\* finalOutput is the one the visual sub-workflow produced for that scene; it
\* is stated here for the runs in which every scene carries its own number.
C20_SceneGetsItsOwnImagePrompt ==
    (graph = "main" /\ status = "done" /\ ownNumbers) =>
        \A i \in DOMAIN finalOutput.scenes :
            subject(finalOutput.scenes[i].imagePrompt)
                = <<"image", finalOutput.scenes[i].title[2]>>

\* C21: when planStory runs again after a rejected critique, its request to
\* the Generation Port carries that critique's feedback, so it differs from
\* the request of the run before; likewise createVisualDescription when the
\* visual critique sent the description back.
C21_RevisionRequestCarriesFeedback ==
    [][/\ ran("planStory") /\ graph = "main" /\ narrativeCritique.revisionCount >= 1
          /\ status' # "failed"
          => /\ "feedback" \in DOMAIN port'.prompt
             /\ port'.prompt # port.prompt
       /\ ran("createVisualDescription") /\ visualCritique.revisionCount >= 1
          /\ status' # "failed"
          => /\ "feedback" \in DOMAIN port'.request
             /\ port'.request # port.request]_vars

\* CONFIG.revisionLimit as graph.ts ships it
configuredRevisionLimit == 1

C23_CritiqueStateCountsCritiques ==
    /\ critiqueState = defaultCritique
    /\ [][/\ ran(critiqueNode) /\ status' # "failed" =>
                /\ critiqueState'.revisionCount = critiqueState.revisionCount + 1
                /\ critiqueState'.feedback = port'.critique.feedback
                /\ critiqueState'.revisionCount = calls'[critiqueNode]
          /\ ~ran(critiqueNode) \/ status' = "failed" =>
                critiqueState' = critiqueState]_vars

C23_Witness ==
    /\ graph = "main"
    /\ status = "done"
    /\ calls["critiqueNarrative"] = 2
    /\ narrativeCritique = [isApproved |-> TRUE, feedback |-> <<"revise">>,
                            revisionCount |-> 2]
    /\ port.rejections = 2

\* C24: every run of the visual sub-workflow inside the main graph starts from
\* its task's scene and the default visualCritique, whatever narrativeCritique
\* holds and whatever the other branches have done, and ends within its own
\* revision limit; a visual branch that returns adds one entry to
\* visualDescriptions and leaves every other channel of the main graph alone.
C24_SubWorkflowRunsAreIsolated ==
    /\ [](\A i \in Pending("processVisualForScene") :
            /\ subgraphInput(tasks[i].input).scene = tasks[i].input.scene
            /\ subgraphInput(tasks[i].input).visualCritique = defaultCritique
            /\ \A result \in invokeSubgraph({subgraphInput(tasks[i].input)}, CONFIG) :
                  result.ok =>
                     /\ result.state.scene = tasks[i].input.scene
                     /\ result.state.visualCritique.revisionCount >= 1
                     /\ result.state.visualCritique.revisionCount
                           <= IF CONFIG.revisionLimit = 0 THEN 1
                              ELSE CONFIG.revisionLimit)
    /\ [][ran("processVisualForScene") /\ status' # "failed" =>
             /\ Len(lastReturned("visualDescriptions")) = 1
             /\ isPrefix(visualDescriptions, visualDescriptions')
             /\ UNCHANGED <<scenes, storyPlan, narrativeCritique, audience_inputs,
                            finalOutput, scene, visualDescription,
                            visualCritique>>]_vars

\* the second visual branch has returned after two narrative critiques
C24_Witness ==
    /\ graph = "main"
    /\ narrativeCritique.revisionCount = 2
    /\ calls["processVisualForScene"] = 2
    /\ Len(visualDescriptions) = 2
    /\ visualCritique = defaultCritique
    /\ status = "running"

\* C25: in the main graph, whenever a generateSingleScene task is scheduled or
\* scenes is not empty, the narrative is approved and critiqueNarrative has run;
\* from then on planStory is neither scheduled nor run again.
C25_NoSceneBeforeApproval ==
    /\ [](graph = "main"
            /\ (scheduled("generateSingleScene") # {} \/ scenes # <<>>) =>
                /\ narrativeCritique.isApproved
                /\ calls["critiqueNarrative"] >= 1
                /\ scheduled("planStory") = {})
    /\ [][graph = "main"
            /\ (scheduled("generateSingleScene") # {} \/ scenes # <<>>) =>
                ~ran("planStory") /\ ~ran("critiqueNarrative")]_vars

\* scene branches are scheduled after a rejection and a forced approval
C25_Witness ==
    /\ graph = "main"
    /\ Cardinality(scheduled("generateSingleScene")) = 2
    /\ done # {}
    /\ calls["planStory"] = 2
    /\ port.critique = [isApproved |-> FALSE, feedback |-> <<"revise">>]
    /\ narrativeCritique.isApproved

\* C26: in every reachable state each router returns a destination its
\* conditional edge declares: narrativeCritiqueRouter "planStory" or
\* "sceneGenerationCoordinator", visualCritiqueRouter "createVisualDescription"
\* or "__end__", the fan-out routers Sends to "generateSingleScene" and to
\* "processVisualForScene"; every task that came from a Send is one of these.
C26_RoutersReturnDeclaredDestinations ==
    /\ graph = "main" /\ narrativeCritique.revisionCount >= 1 =>
          narrativeCritiqueRouter(State, CONFIG.revisionLimit)
              \in {"planStory", "sceneGenerationCoordinator"}
    /\ graph = "visual" /\ visualCritique.revisionCount >= 1 =>
          visualCritiqueRouter(State, CONFIG.revisionLimit)
              \in {"createVisualDescription", "__end__"}
    /\ graph = "main" /\ storyPlan # Undefined =>
          \A i \in DOMAIN mapScenesToGenerate(State) :
              mapScenesToGenerate(State)[i].node = "generateSingleScene"
    /\ graph = "main" =>
          \A i \in DOMAIN mapScenesToVisualProcessing(State) :
              mapScenesToVisualProcessing(State)[i].node = "processVisualForScene"
    /\ \A i \in DOMAIN tasks :
          /\ tasks[i].node \in Range(Nodes)
          /\ tasks[i].input # Undefined =>
                tasks[i].node \in {"generateSingleScene", "processVisualForScene"}
    /\ graph = "main" /\ calls["critiqueNarrative"] >= 1
          /\ calls["sceneGenerationCoordinator"] = 0 /\ status = "running" =>
          /\ Len(tasks) = 1
          /\ tasks[1].node \in {"critiqueNarrative", "planStory",
                                "sceneGenerationCoordinator"}

\* the narrative router has sent a plan back and both fan-outs have sent tasks
C26_Witness ==
    /\ graph = "main"
    /\ calls["planStory"] = 2
    /\ Cardinality(scheduled("processVisualForScene")) = 2
    /\ \A i \in DOMAIN tasks : tasks[i].input # Undefined

\* C29: the narrativeArc planStory stores has sceneCount entries; its first
\* min(k, sceneCount) entries are the first entries of the k the Generation
\* Port returned, in their order, and every later position j holds the
\* placeholder labelled "Scene j" with the fixed continuation description.
C29_RepairKeepsGeneratedEntries ==
    graph = "main" /\ storyPlan # Undefined =>
        /\ Len(storyPlan.narrativeArc) = CONFIG.sceneCount
        /\ Len(port.planned) <= CONFIG.sceneCount
        /\ \A j \in 1..CONFIG.sceneCount :
              storyPlan.narrativeArc[j] =
                  IF j <= Len(port.planned) THEN port.planned[j]
                  ELSE [phase |-> <<"Scene", j>>,
                        description |-> "Continuation of the story..."]

\* one entry was generated and one padded
C29_Witness ==
    /\ graph = "main"
    /\ CONFIG.sceneCount = 2
    /\ storyPlan # Undefined
    /\ Len(port.planned) = 1
    /\ storyPlan.narrativeArc[1] = [phase |-> <<"phase", 1>>, description |-> "generated"]
    /\ storyPlan.narrativeArc[2].phase = <<"Scene", 2>>

\* C30: the request for scene i carries the cliffhanger instruction exactly
\* when i = sceneCount, in the fan-out generator of the main graph and in the
\* loop of the linear graph.
C30_CliffhangerOnlyForLastScene ==
    /\ [](graph = "linear" /\ scheduled("generateScenes") # {} =>
            \A n \in 1..CONFIG.sceneCount :
                scenePromptLinear(State, n, CONFIG.sceneCount).cliffhanger
                    <=> n = CONFIG.sceneCount)
    /\ [][ran("generateSingleScene") =>
            (port'.request.cliffhanger
                <=> port'.request.sceneNumber = CONFIG.sceneCount)]_vars

\* the (sceneNumber, title, description) triples of assembled scenes
triples(assembled) ==
    [i \in DOMAIN assembled |->
        [sceneNumber |-> assembled[i].sceneNumber, title |-> assembled[i].title,
         description |-> assembled[i].description]]

\* what the sequential generator and its formatOutput make of the same
\* answers, taken slot by slot as the loop of generateScenes pushes them
sequentialScenes ==
    formatOutputLinear(
        [State EXCEPT !.scenes =
            generateScenes(State, Len(scenes),
                           inDispatchOrder(scenes, sceneSlot)).update.scenes]
    ).update.finalOutput.scenes

\* C28: with the same story plan and the same answer of the Generation Port for
\* every scene slot, the fan-out branches of the main graph end with the same
\* sequence of (sceneNumber, title, description) triples in finalOutput.scenes
\* as the sequential loop.
C28_FanOutEqualsSequential ==
    (graph = "main" /\ finalOutput # Undefined) =>
        triples(finalOutput.scenes) = sequentialScenes

\* the steps of a linear graph in edge order
chain ==
    IF graph = "linear"
    THEN <<"processInputs", "planStory", "generateScenes", "formatOutput">>
    ELSE <<"processInput", "analyzeData", "generateRecommendations", "formatOutput">>

\* the update of step k of the chain is in the shared state
merged(k) ==
    IF graph = "linear"
    THEN CASE k = 1 -> (documented(input) => isArray(audience_inputs))
           [] k = 2 -> storyPlan # Undefined
           [] k = 3 -> Len(scenes) = CONFIG.sceneCount
           [] k = 4 -> finalOutput # Undefined
    ELSE CASE k = 1 -> "timestamp" \in DOMAIN userInput
           [] k = 2 -> processedData # Undefined
           [] k = 3 -> "recommendations" \in DOMAIN processedData
           [] k = 4 -> finalOutput # Undefined

\* C27: in the linear graph and in the skeleton graph every step runs at most
\* once, and exactly once in a run that is done; the steps run in edge order,
\* one at a time, and a step is scheduled only when the updates of all steps
\* before it have been merged into the shared state.
C27_LinearStepsOnceInEdgeOrder ==
    graph \in {"linear", "skeleton"} =>
        /\ \A k \in DOMAIN chain : calls[chain[k]] <= 1
        /\ \A k \in DOMAIN chain : k > 1 => calls[chain[k]] <= calls[chain[k - 1]]
        /\ \A n \in Range(Nodes) \ Range(chain) : calls[n] = 0
        /\ status = "done" =>
              \A k \in DOMAIN chain : calls[chain[k]] = 1 /\ merged(k)
        /\ status = "running" =>
              /\ Len(tasks) = 1 /\ done = {} /\ writes = <<>>
              /\ \E k \in DOMAIN chain :
                    /\ tasks[1].node = chain[k]
                    /\ calls[chain[k]] = 0
                    /\ \A j \in 1..(k - 1) : calls[chain[j]] = 1 /\ merged(j)

\* a run of the skeleton graph is done
C27_Witness ==
    /\ graph = "skeleton"
    /\ status = "done"
    /\ finalOutput # Undefined
    /\ finalOutput.status = "success"
    /\ calls["generateRecommendations"] = 1

\* C31: whenever formatOutput of the main graph is scheduled it returns, and
\* its update holds finalOutput only; the step that runs it asks the
\* Generation Port nothing, ends the run, and leaves scenes (order included),
\* visualDescriptions, storyPlan, the critique state and audience_inputs as
\* they were.
C31_FormatOutputWritesOnlyFinalOutput ==
    /\ [](graph = "main" /\ scheduled("formatOutput") # {} =>
            /\ storyPlan # Undefined
            /\ \A i \in DOMAIN visualDescriptions :
                  visualDescriptions[i] # Undefined
            /\ formatOutput(State).ok
            /\ \A k \in DOMAIN NoUpdate \ {"finalOutput"} :
                  formatOutput(State).update[k] = NoUpdate[k]
            /\ formatOutput(State).update.finalOutput # NoWrite)
    /\ [][graph = "main" /\ ran("formatOutput") =>
            /\ status' = "done"
            /\ finalOutput' = formatOutput(State).update.finalOutput
            /\ UNCHANGED <<scenes, visualDescriptions, storyPlan, narrativeCritique,
                           visualCritique, audience_inputs, port>>]_vars

\* formatOutput has run on scenes that were merged out of order
C31_Witness ==
    /\ graph = "main"
    /\ status = "done"
    /\ calls["formatOutput"] = 1
    /\ Len(scenes) = 2
    /\ scenes[1].sceneNumber > scenes[2].sceneNumber
    /\ finalOutput.scenes[1].sceneNumber < finalOutput.scenes[2].sceneNumber

\* C32: in a run of the workshop graph with critiqueScenes wired in that is
\* done, finalOutput.scenes holds sceneCount scenes, one for every sceneNumber,
\* and the scenes formatOutput last read hold no scene besides the improved ones.
C32_CritiqueReplacesScenes ==
    graph = "workshop" /\ status = "done" =>
        /\ Len(finalOutput.scenes) = CONFIG.sceneCount
        /\ Len(scenes) = CONFIG.sceneCount
        /\ \A n \in 1..CONFIG.sceneCount :
              Cardinality({i \in DOMAIN finalOutput.scenes :
                              /\ "sceneNumber" \in DOMAIN finalOutput.scenes[i]
                              /\ finalOutput.scenes[i].sceneNumber = n}) = 1

\* C33: in a run of the skeleton graph that is done, finalOutput.response holds
\* the summary and the results the Generation Port returned to analyzeData and
\* the recommendations it returned to generateRecommendations, and
\* finalOutput.status is "success".
C33_SkeletonOutputCombinesAnswers ==
    graph = "skeleton" /\ status = "done" =>
        /\ finalOutput.response.summary = port.analysis.summary
        /\ finalOutput.response.results = port.analysis.results
        /\ finalOutput.response.recommendations = port.recommended.recommendations
        /\ finalOutput.status = "success"

\* C34: every imagePrompt in visualDescriptions and in finalOutput.scenes,
\* and the one the visual sub-workflow holds, is at most imagePromptLimit
\* characters long, whatever the Generation Port returned.
C34_ImagePromptBounded ==
    /\ \A i \in DOMAIN visualDescriptions :
          Len(visualDescriptions[i].imagePrompt) <= imagePromptLimit
    /\ graph = "main" /\ finalOutput # Undefined =>
          \A i \in DOMAIN finalOutput.scenes :
              Len(finalOutput.scenes[i].imagePrompt) <= imagePromptLimit
    /\ graph = "visual" /\ visualDescription # Undefined =>
          Len(visualDescription.imagePrompt) <= imagePromptLimit

\* C35: when a Generation Port call of the loop of generateScenes fails, the
\* step fails without an update: scenes stays the empty array it was, the
\* scenes made before the failing call are not appended, and no later step
\* runs.
C35_FailedLoopAppendsNothing ==
    /\ [][ran("generateScenes") /\ port'.failed =>
            /\ status' = "failed"
            /\ scenes = <<>> /\ scenes' = <<>>
            /\ tasks' = <<>>
            /\ UNCHANGED <<storyPlan, finalOutput, audience_inputs>>]_vars
    /\ [](graph = "linear" /\ port.failed /\ calls["generateScenes"] = 1 =>
                /\ scenes = <<>>
                /\ finalOutput = Undefined
                /\ calls["formatOutput"] = 0)

\* the call for the second scene failed after the first had answered
C35_Witness ==
    /\ graph = "linear"
    /\ CONFIG.sceneCount = 2
    /\ calls["generateScenes"] = 1
    /\ port.failed
    /\ port.request # Undefined
    /\ port.request.sceneNumber = 2
    /\ status = "failed"
    /\ scenes = <<>>

====
